---------------------------- MODULE Spec2Model ----------------------------
(***************************************************************************)
(* A model of funny-proxy: the packet codec of src/src/packet.rs, the      *)
(* per-connection state machine of src/src/connection.rs and the accept    *)
(* loop of src/src/main.rs.  Spec runs one connection against a peer,      *)
(* CodecSpec calls the codec's functions on bounded inputs, ServerSpec     *)
(* runs the accept loop with several connections.                          *)
(*                                                                         *)
(* Bytes are the integers 0..255.  A 32-bit signed integer is an integer   *)
(* in -2^31 .. 2^31-1.  A 64-bit integer is kept as four 16-bit limbs,     *)
(* most significant first (the arithmetic of the checker is 32 bits wide). *)
(* A result of a read is a record [err, value, idx]: err = "Ok" on         *)
(* success, a DecodingError name on Err(..), "Panic" when the code panics. *)
(***************************************************************************)
EXTENDS Integers, Sequences, FiniteSets, TLC

(***************************************************************************)
(* Bounds of the model.                                                    *)
(***************************************************************************)
MaxFrames == 2

(***************************************************************************)
(* Generic helpers on sequences.                                           *)
(***************************************************************************)
Take(s, n) == SubSeq(s, 1, n)

Drop(s, n) == SubSeq(s, n + 1, Len(s))

RECURSIVE Flatten(_)
Flatten(ss) == IF ss = <<>> THEN <<>> ELSE Head(ss) \o Flatten(Tail(ss))

Pow2(k) == CASE k = 0 -> 1 [] k = 7 -> 128 [] k = 14 -> 16384
             [] k = 21 -> 2097152 [] k = 28 -> 268435456

MinI32 == (-1073741824) * 2

(***************************************************************************)
(* ConnectionState and the packet type registries.                         *)
(***************************************************************************)
ConnectionState == {"Handshake", "Status", "Login", "Play", "Disconnected"}

\* A registry with a slip: id 0 of Status resolves to the login start.
SERVERBOUND_PACKET_TYPES_status_slip ==
    { <<"Handshake", 0, "HandshakeServerboundStart">>,
      <<"Status",    0, "LoginServerboundStart">>,
      <<"Status",    1, "StatusServerboundPing">>,
      <<"Login",     0, "LoginServerboundStart">> }

SERVERBOUND_PACKET_TYPES ==
    { <<"Handshake", 0, "HandshakeServerboundStart">>,
      <<"Status",    0, "StatusServerboundRequest">>,
      <<"Status",    1, "StatusServerboundPing">>,
      <<"Login",     0, "LoginServerboundStart">> }

CLIENTBOUND_PACKET_TYPES ==
    { <<"StatusClientboundResponse", 0>>,
      <<"StatusClientboundPong", 1>>,
      <<"LoginClientboundSuccess", 2>>,
      <<"PlayClientboundLogin", 40>>,
      <<"PlayClientboundDifficulty", 12>>,
      <<"PlayClientboundAbilities", 52>>,
      <<"PlayClientboundSetDefaultSpawnPosition", 80>> }

\* A slip: the id is looked up without the phase.
packet_id_to_type_any_phase(id, st) ==
    LET hits == { e \in SERVERBOUND_PACKET_TYPES : e[2] = id }
    IN  IF hits = {} THEN [err |-> "InvalidPacketId", value |-> <<id, st>>]
        ELSE [err |-> "Ok", value |-> (CHOOSE e \in hits : TRUE)[3]]

\* Packet::packet_id_to_type: Ok(type) or Err(InvalidPacketId(id, state)).
packet_id_to_type(id, st) ==
    LET hits == { e \in SERVERBOUND_PACKET_TYPES : e[1] = st /\ e[2] = id }
    IN  IF hits = {} THEN [err |-> "InvalidPacketId", value |-> <<id, st>>]
        ELSE [err |-> "Ok", value |-> (CHOOSE e \in hits : TRUE)[3]]

\* Packet::packet_type_to_id (only ever called with registered types).
packet_type_to_id(ptype) ==
    (CHOOSE e \in CLIENTBOUND_PACKET_TYPES : e[1] = ptype)[2]

(***************************************************************************)
(* PacketReader: a reader is the pair (buf, idx), idx the 0-based          *)
(* reader_index; buf[idx + 1] is the next byte.                            *)
(***************************************************************************)
Res(e, v, i) == [err |-> e, value |-> v, idx |-> i]

left_to_read(buf, idx) == Len(buf) - idx

\* Err(StringTooSmall) when fewer than len bytes remain.
ensure_at_least(buf, idx, len) ==
    IF idx + len > Len(buf) THEN "StringTooSmall" ELSE "Ok"

\* self.buf[self.reader_index]: an index past the end panics.
read_one_unsafe(buf, idx) ==
    IF idx >= Len(buf) THEN Res("Panic", 0, idx)
    ELSE Res("Ok", buf[idx + 1], idx + 1)

\* A slip: the byte is read without looking at the length of the buffer.
try_read_one_unchecked(buf, idx) == read_one_unsafe(buf, idx)

try_read_one(buf, idx) ==
    IF idx >= Len(buf) THEN Res("PacketTooSmall", 0, idx)
    ELSE read_one_unsafe(buf, idx)

\* value |= (current_byte & 0x7F) << position, in wrapping 32-bit arithmetic.
\* At position 28 only the low four bits of the group fit; bit 31 is the sign.
OrShifted(value, group, position) ==
    IF position < 28 THEN value + group * Pow2(position)
    ELSE value + (group % 8) * Pow2(28)
               + (IF (group \div 8) % 2 = 1 THEN MinI32 ELSE 0)

\* A slip: the loop gives up after four groups.
RECURSIVE read_varint_loop_four_groups(_, _, _, _)
read_varint_loop_four_groups(buf, idx, value, position) ==
    LET b == try_read_one(buf, idx) IN
    IF b.err # "Ok" THEN Res(b.err, 0, idx)
    ELSE LET v == OrShifted(value, b.value % 128, position) IN
         IF b.value \div 128 = 0 THEN Res("Ok", v, b.idx)
         ELSE IF position + 7 >= 28 THEN Res("VarIntTooBig", 0, b.idx)
         ELSE read_varint_loop_four_groups(buf, b.idx, v, position + 7)

RECURSIVE read_varint_loop(_, _, _, _)
read_varint_loop(buf, idx, value, position) ==
    LET b == try_read_one(buf, idx) IN
    IF b.err # "Ok" THEN Res(b.err, 0, idx)
    ELSE LET v == OrShifted(value, b.value % 128, position) IN
         IF b.value \div 128 = 0 THEN Res("Ok", v, b.idx)
         ELSE IF position + 7 >= 32 THEN Res("VarIntTooBig", 0, b.idx)
         ELSE read_varint_loop(buf, b.idx, v, position + 7)

read_varint(buf, idx) == read_varint_loop(buf, idx, 0, 0)

\* A slip: the size is the reader index after the varint, not the
\* difference to the index before it.
read_varint_with_size_absolute(buf, idx) ==
    LET r == read_varint(buf, idx) IN
    IF r.err # "Ok" THEN r ELSE Res("Ok", <<r.value, r.idx>>, r.idx)

\* value is the pair <<varint, bytes consumed>>.
read_varint_with_size(buf, idx) ==
    LET r == read_varint(buf, idx) IN
    IF r.err # "Ok" THEN r ELSE Res("Ok", <<r.value, r.idx - idx>>, r.idx)

(***************************************************************************)
(* std::str::from_utf8: well-formed UTF-8 byte sequences (Unicode 3.9,     *)
(* table 3-7).                                                             *)
(***************************************************************************)
IsCont(b) == b >= 128 /\ b <= 191

RECURSIVE IsValidUtf8(_)
IsValidUtf8(s) ==
    IF s = <<>> THEN TRUE
    ELSE LET b == s[1]
             n == Len(s)
         IN
         IF b < 128 THEN IsValidUtf8(Drop(s, 1))
         ELSE IF b >= 194 /\ b <= 223
              THEN n >= 2 /\ IsCont(s[2]) /\ IsValidUtf8(Drop(s, 2))
         ELSE IF b >= 224 /\ b <= 239
              THEN /\ n >= 3
                   /\ IsCont(s[2]) /\ IsCont(s[3])
                   /\ (b = 224 => s[2] >= 160)
                   /\ (b = 237 => s[2] <= 159)
                   /\ IsValidUtf8(Drop(s, 3))
         ELSE IF b >= 240 /\ b <= 244
              THEN /\ n >= 4
                   /\ IsCont(s[2]) /\ IsCont(s[3]) /\ IsCont(s[4])
                   /\ (b = 240 => s[2] >= 144)
                   /\ (b = 244 => s[2] <= 143)
                   /\ IsValidUtf8(Drop(s, 4))
         ELSE FALSE

\* A slip: the buffer is examined before the bound.
read_string_buffer_first(buf, idx, max_length) ==
    LET r == read_varint(buf, idx) IN
    IF r.err # "Ok" THEN r
    ELSE IF r.value >= 0 /\ ensure_at_least(buf, r.idx, r.value) # "Ok"
         THEN Res("StringTooSmall", <<>>, r.idx)
    ELSE IF r.value < 0 \/ r.value > max_length
         THEN Res("StringTooLarge", <<>>, r.idx)
    ELSE LET slice == SubSeq(buf, r.idx + 1, r.idx + r.value) IN
         IF IsValidUtf8(slice) THEN Res("Ok", slice, r.idx + r.value)
         ELSE Res("StringInvalidUtf8", <<>>, r.idx + r.value)

\* read_string(max_length): size is the varint cast to usize, so a negative
\* prefix is a huge size and fails the bound.  value is the string's bytes.
read_string(buf, idx, max_length) ==
    LET r == read_varint(buf, idx) IN
    IF r.err # "Ok" THEN r
    ELSE IF r.value < 0 \/ r.value > max_length
         THEN Res("StringTooLarge", <<>>, r.idx)
    ELSE IF ensure_at_least(buf, r.idx, r.value) # "Ok"
         THEN Res("StringTooSmall", <<>>, r.idx)
    ELSE LET slice == SubSeq(buf, r.idx + 1, r.idx + r.value) IN
         IF IsValidUtf8(slice) THEN Res("Ok", slice, r.idx + r.value)
         ELSE Res("StringInvalidUtf8", <<>>, r.idx + r.value)

read_boolean(buf, idx) ==
    LET b == try_read_one(buf, idx) IN
    IF b.err # "Ok" THEN b ELSE Res("Ok", b.value # 0, b.idx)

\* value is the u16.
read_short(buf, idx) ==
    IF ensure_at_least(buf, idx, 2) # "Ok" THEN Res("StringTooSmall", 0, idx)
    ELSE Res("Ok", buf[idx + 1] * 256 + buf[idx + 2], idx + 2)

\* read_long checks for 2 bytes and then reads 8 with read_one_unsafe: with
\* 2..7 bytes left the index runs past the end of the buffer and panics.
read_long(buf, idx) ==
    IF ensure_at_least(buf, idx, 2) # "Ok" THEN Res("StringTooSmall", 0, idx)
    ELSE IF idx + 8 > Len(buf) THEN Res("Panic", 0, Len(buf))
    ELSE Res("Ok", << buf[idx + 1] * 256 + buf[idx + 2],
                      buf[idx + 3] * 256 + buf[idx + 4],
                      buf[idx + 5] * 256 + buf[idx + 6],
                      buf[idx + 7] * 256 + buf[idx + 8] >>, idx + 8)

\* Uuid::from_u64_pair(read_long()?, read_long()?)
read_uuid(buf, idx) ==
    LET hi == read_long(buf, idx) IN
    IF hi.err # "Ok" THEN hi
    ELSE LET lo == read_long(buf, hi.idx) IN
         IF lo.err # "Ok" THEN lo
         ELSE Res("Ok", <<hi.value, lo.value>>, lo.idx)

\* read_optional(|reader| reader.read_uuid()): value is <<>> for None and
\* <<uuid>> for Some(uuid).
read_optional_uuid(buf, idx) ==
    LET p == read_boolean(buf, idx) IN
    IF p.err # "Ok" THEN p
    ELSE IF p.value
         THEN LET u == read_uuid(buf, p.idx) IN
              IF u.err # "Ok" THEN u ELSE Res("Ok", <<u.value>>, u.idx)
    ELSE Res("Ok", <<>>, p.idx)

(***************************************************************************)
(* Packet::decode / Packet::read.  value is [packet_type, data, raw_size]. *)
(* (length as usize) - packet_id_size underflows when the id varint is     *)
(* longer than the declared length or the length is negative: the          *)
(* subtraction panics with overflow checks on, and without them the        *)
(* allocation of the wrapped size panics (capacity overflow).              *)
(***************************************************************************)
NoPacket == [packet_type |-> "None", data |-> <<>>, raw_size |-> 0]

Packet_read(buf, st) ==
    IF left_to_read(buf, 0) < 1 THEN [err |-> "PacketTooSmall", value |-> NoPacket]
    ELSE LET len == read_varint(buf, 0) IN
    IF len.err # "Ok" THEN [err |-> len.err, value |-> NoPacket]
    ELSE IF len.value > left_to_read(buf, len.idx)
         THEN [err |-> "PacketTooSmall", value |-> NoPacket]
    ELSE LET id == read_varint_with_size(buf, len.idx) IN
    IF id.err # "Ok" THEN [err |-> id.err, value |-> NoPacket]
    ELSE LET pt == packet_id_to_type(id.value[1], st) IN
    IF pt.err # "Ok" THEN [err |-> pt.err, value |-> NoPacket]
    ELSE LET buffer_length == len.value - id.value[2] IN
    IF buffer_length < 0 THEN [err |-> "Panic", value |-> NoPacket]
    ELSE IF ensure_at_least(buf, id.idx, buffer_length) # "Ok"
         THEN [err |-> "Panic", value |-> NoPacket]
    ELSE [err |-> "Ok",
          value |-> [packet_type |-> pt.value,
                     data |-> SubSeq(buf, id.idx + 1, id.idx + buffer_length),
                     raw_size |-> id.idx + buffer_length]]

decode(buf, st) == Packet_read(buf, st)

(***************************************************************************)
(* PacketWriter: a writer is its byte buffer; every write appends.         *)
(***************************************************************************)
write_byte(byte) == <<byte>>

write_boolean(boolean) == write_byte(IF boolean THEN 1 ELSE 0)

\* The four bytes of an i32, most significant first.
write_int(value) ==
    << (value \div 16777216) % 256, (value \div 65536) % 256,
       (value \div 256) % 256, value % 256 >>

\* The eight bytes of an i64 (four 16-bit limbs), most significant first.
write_long(value) ==
    << value[1] \div 256, value[1] % 256, value[2] \div 256, value[2] % 256,
       value[3] \div 256, value[3] % 256, value[4] \div 256, value[4] % 256 >>

\* value.to_be_bytes() of an f32 given by its IEEE-754 bit pattern.
write_float(bits) == write_int(bits)

\* ((x & 0x3FFFFFF) << 38) | ((z & 0x3FFFFFF) << 12) | (y & 0xFFF)
write_position(x, y, z) ==
    LET xm == x % 67108864
        zm == z % 67108864
        ym == y % 4096
    IN  write_long(<< xm \div 1024,
                      (xm % 1024) * 64 + (zm \div 1048576),
                      (zm \div 16) % 65536,
                      (zm % 16) * 4096 + ym >>)

\* PacketWriter::write_var_int and the free function write_var_int emit the
\* same bytes: 7 bits at a time, logical shift right of the u32.
RECURSIVE write_var_int(_)
write_var_int(value) ==
    IF value >= 0 /\ value < 128 THEN <<value>>
    ELSE <<(value % 128) + 128>>
         \o write_var_int(IF value >= 0 THEN value \div 128
                          ELSE (value \div 128) + 33554432)

write_string(str) == write_var_int(Len(str)) \o str

write_uuid(uuid) == write_long(uuid[1]) \o write_long(uuid[2])

write_packet_type(ptype) == write_var_int(packet_type_to_id(ptype))

(***************************************************************************)
(* Fixed content written by the handlers.                                  *)
(***************************************************************************)
StatusJson ==
    <<123, 10, 32, 32, 32, 32, 34, 118, 101, 114, 115, 105, 111, 110, 34, 58, 32, 123, 10, 32, 32, 32, 32, 32, 32, 32, 32, 34, 110, 97, 109, 101, 34, 58, 32, 34, 49, 46, 49, 57, 46, 52, 34, 44, 10, 32, 32, 32, 32, 32, 32, 32, 32, 34, 112, 114, 111, 116, 111, 99, 111, 108, 34, 58, 32, 55, 54, 50, 10, 32, 32, 32, 32, 125, 44, 10, 32, 32, 32, 32, 34, 112, 108, 97, 121, 101, 114, 115, 34, 58, 32, 123, 10, 32, 32, 32, 32, 32, 32, 32, 32, 34, 109, 97, 120, 34, 58, 32, 49, 48, 48, 44, 10, 32, 32, 32, 32, 32, 32, 32, 32, 34, 111, 110, 108, 105, 110, 101, 34, 58, 32, 53, 44, 10, 32, 32, 32, 32, 32, 32, 32, 32, 34, 115, 97, 109, 112, 108, 101, 34, 58, 32, 91, 93, 10, 32, 32, 32, 32, 125, 44, 10, 32, 32, 32, 32, 34, 100, 101, 115, 99, 114, 105, 112, 116, 105, 111, 110, 34, 58, 32, 123, 10, 32, 32, 32, 32, 32, 32, 32, 32, 34, 116, 101, 120, 116, 34, 58, 32, 34, 72, 101, 108, 108, 111, 32, 119, 111, 114, 108, 100, 34, 10, 32, 32, 32, 32, 125, 10, 125>>

RegistryNbt ==
    <<10, 0, 0, 10, 0, 19, 109, 105, 110, 101, 99, 114, 97, 102, 116, 58, 99, 104, 97, 116, 95, 116, 121, 112, 101, 0, 10, 0, 24, 109, 105, 110, 101, 99, 114, 97, 102, 116, 58, 100, 105, 109, 101, 110, 115, 105, 111, 110, 95, 116, 121, 112, 101, 0, 10, 0, 24, 109, 105, 110, 101, 99, 114, 97, 102, 116, 58, 119, 111, 114, 108, 100, 103, 101, 110, 47, 98, 105, 111, 109, 101, 0, 0>>

MinecraftWorld ==
    <<109, 105, 110, 101, 99, 114, 97, 102, 116, 58, 119, 111, 114, 108, 100>>

\* 0x7D42D4473EB771F9
SeedHash == <<32066, 54343, 16055, 29177>>

\* 0.05f32 = 0x3D4CCCCD, 0.1f32 = 0x3DCCCCCD, 0f32 = 0
FlySpeedBits == 1028443341

FovModifierBits == 1036831949

PlayLoginBody ==
    write_packet_type("PlayClientboundLogin")
    \o write_int(12) \o write_boolean(FALSE) \o write_byte(0) \o write_byte(0)
    \o write_var_int(1) \o write_string(MinecraftWorld) \o RegistryNbt
    \o write_string(MinecraftWorld) \o write_string(MinecraftWorld)
    \o write_long(SeedHash) \o write_var_int(0) \o write_var_int(10)
    \o write_var_int(10) \o write_boolean(FALSE) \o write_boolean(TRUE)
    \o write_boolean(FALSE) \o write_boolean(FALSE) \o write_boolean(FALSE)

DifficultyBody ==
    write_packet_type("PlayClientboundDifficulty")
    \o write_byte(2) \o write_boolean(FALSE)

AbilitiesBody ==
    write_packet_type("PlayClientboundAbilities")
    \o write_byte(0) \o write_float(FlySpeedBits) \o write_float(FovModifierBits)

SpawnPositionBody ==
    write_packet_type("PlayClientboundSetDefaultSpawnPosition")
    \o write_position(0, 100, 0) \o write_float(0)

(***************************************************************************)
(* The peer: the frames a client may send.  Frame is the client's encoder. *)
(***************************************************************************)
Frame(id, payload) ==
    LET body == write_var_int(id) \o payload
    IN  write_var_int(Len(body)) \o body

Localhost == <<108, 111, 99, 97, 108, 104, 111, 115, 116>>

Alice == <<65, 108, 105, 99, 101>>

HandshakeStart(next_state) ==
    Frame(0, write_var_int(762) \o write_string(Localhost)
             \o <<99, 221>> \o write_var_int(next_state))

Catalogue ==
    << HandshakeStart(1),                           \* 1: -> Status
       HandshakeStart(2),                           \* 2: -> Login
       HandshakeStart(3),                           \* 3: unsupported next state
       Frame(0, <<>>),                              \* 4: status request
       Frame(1, <<1, 2, 3, 4, 5, 6, 7, 8>>),        \* 5: status ping
       Frame(0, write_string(Alice) \o <<0>>),      \* 6: login start, no uuid
       Frame(0, write_string(<<66>>) \o <<1, 0, 1, 2, 3, 4, 5, 6, 7,
                                          8, 9, 10, 11, 12, 13, 14, 255>>),
                                                    \* 7: login start with uuid
       Frame(0, <<17>>),                            \* 8: string prefix 17
       Frame(0, <<1, 255, 0>>),                     \* 9: invalid UTF-8 string
       Frame(0, <<128, 128, 128, 128, 128>>),       \* 10: oversized varint
       Frame(5, <<>>),                              \* 11: unregistered id
       <<128, 128, 128, 128, 128>>,                 \* 12: oversized length
       <<9, 1, 170>>,                               \* 13: 2 of 9 declared bytes
       <<0, 0>>,                                    \* 14: declared length 0
       <<1, 128, 0>>,                               \* 15: id longer than length
       <<128>>,                                     \* 16: half a length varint
       Frame(1, <<1, 2, 3>>),                       \* 17: ping with 3 bytes
       <<255, 255, 255, 255, 15, 0>> >>             \* 18: declared length -1

\* The values Uuid::new_v4() may return.
UuidChoices ==
    { << <<4660, 22136, 17185, 4660>>, <<39612, 57072, 4660, 22136>> >>,
      << <<65535, 0, 16384, 1>>, <<32768, 0, 0, 2>> >> }

(***************************************************************************)
(* The connection.  A connection value is the record of the fields of      *)
(* Connection (state, current_packet), the position of its task (pc:       *)
(* "read" in try_read, "parse" in the loop of data_read, "done" after the  *)
(* loop of process, "panicked" when the task has panicked) and the record  *)
(* of what it has done:                                                    *)
(*   log          packets dispatched, phase changes and packets handed to  *)
(*                send_packet, in order                                    *)
(*   consumed     the frames drained from current_packet, in order         *)
(*   shutdowns    calls of stream.shutdown()                               *)
(*   disconnects  calls of disconnect                                      *)
(*   decoded      the last step of the decode pass called Packet::decode   *)
(*   split        a decode pass has ended on a part of a frame             *)
(*   err          the ConnectionError process got from try_read            *)
(*   panic        what panicked                                            *)
(*   violation    the DecodingError that decode returned as an error or    *)
(*                that a handler unwrapped                                 *)
(*   rng          <<u>> once Uuid::new_v4() has returned u, <<>> before    *)
(*   out          the bytes the stream has taken from the task, in order   *)
(* wire holds the bytes the peer has sent and the task has not read yet,   *)
(* nsent counts the frames the peer has sent, received is every byte read. *)
(***************************************************************************)
VARIABLES state, temp_buffer, current_packet, pc,
          log, consumed, shutdowns, disconnects, decoded, split,
          err, panic, violation, rng, out,
          wire, nsent, received

vars == << state, temp_buffer, current_packet, pc,
           log, consumed, shutdowns, disconnects, decoded, split,
           err, panic, violation, rng, out,
           wire, nsent, received >>

(***************************************************************************)
(* The codec on its own: call is a call of a function of packet.rs with    *)
(* its arguments, called tells whether it has returned, ret is what it     *)
(* returned.  No connection runs while the codec is exercised alone, and   *)
(* no codec call is recorded while a connection runs.                      *)
(***************************************************************************)
VARIABLES call, ret, called

codecVars == << call, ret, called >>

CodecIdle == call = <<>> /\ ret = <<>> /\ called = FALSE

(***************************************************************************)
(* The server of main.rs with several connections.  tasks holds, in the    *)
(* order of accept, one record per task spawned: the connection c it owns  *)
(* once Connection::create has run (created), the id create gave it, the   *)
(* bytes its peer has sent and it has not read (wire), and what its peer   *)
(* sends (script, sent).  next_id is NEXT_CONNECTION_ID and listening      *)
(* tells whether the loop of main is running.  The single connection of    *)
(* the variables above is not part of the server and does not run with it. *)
(***************************************************************************)
VARIABLES tasks, next_id, listening

serverVars == << tasks, next_id, listening >>

ServerIdle == tasks = <<>> /\ next_id = 0 /\ listening = FALSE

Self == [state |-> state, current_packet |-> current_packet, pc |-> pc,
         log |-> log, consumed |-> consumed, shutdowns |-> shutdowns,
         disconnects |-> disconnects, decoded |-> decoded, split |-> split,
         rng |-> rng, violation |-> violation, out |-> out,
         err |-> err, panic |-> panic]

Become(c) ==
    /\ state' = c.state
    /\ current_packet' = c.current_packet
    /\ pc' = c.pc
    /\ log' = c.log
    /\ consumed' = c.consumed
    /\ shutdowns' = c.shutdowns
    /\ disconnects' = c.disconnects
    /\ decoded' = c.decoded
    /\ split' = c.split
    /\ rng' = c.rng
    /\ violation' = c.violation
    /\ out' = c.out
    /\ err' = c.err
    /\ panic' = c.panic

\* Connection::create
create ==
    [state |-> "Handshake", current_packet |-> <<>>, pc |-> "read",
     log |-> <<>>, consumed |-> <<>>, shutdowns |-> 0, disconnects |-> 0,
     decoded |-> FALSE, split |-> FALSE, rng |-> <<>>,
     violation |-> "none", out |-> <<>>,
     err |-> "none", panic |-> "none"]

\* A task that has panicked runs no further statement.
Alive(c) == c.panic = "none"

Panicked(c, what) == [c EXCEPT !.panic = what, !.pc = "panicked"]

SetState(c, st) ==
    [c EXCEPT !.state = st, !.log = Append(@, <<"phase", st>>)]

\* A slip: disconnect without its guard shuts the stream down every time.
disconnect_unguarded(c, shutdown_ok) ==
    IF ~Alive(c) THEN c
    ELSE LET d == [c EXCEPT !.disconnects = @ + 1]
             e == [SetState(d, "Disconnected") EXCEPT !.shutdowns = @ + 1]
         IN  IF shutdown_ok THEN e ELSE Panicked(e, "expect_shutdown")

\* Connection::disconnect; shutdown_ok is whether stream.shutdown() succeeds.
disconnect(c, shutdown_ok) ==
    IF ~Alive(c) THEN c
    ELSE LET d == [c EXCEPT !.disconnects = @ + 1] IN
         IF d.state = "Disconnected" THEN d
         ELSE LET e == [SetState(d, "Disconnected") EXCEPT !.shutdowns = @ + 1]
              IN  IF shutdown_ok THEN e ELSE Panicked(e, "expect_shutdown")

\* What the transport does at the k-th send_packet of a handler: writes.at
\* is the send_packet it misbehaves at (0 for none) and writes.n how, -1 for
\* a write that returns an error and n >= 0 for a stream.write(packet) that
\* returns Ok(n), taking the first n bytes only.  Every other write takes
\* all the bytes it is offered.
accepted(writes, k, packet) ==
    IF writes.at = k THEN writes.n ELSE Len(packet)

\* Connection::send_packet: write_var_int(packet.len()) with write_all, then
\* one stream.write(packet), which takes n bytes; n < 0 is a write that
\* returns an error (the length is then taken not to have been written).
send_packet(c, packet, n) ==
    IF ~Alive(c) THEN c
    ELSE IF n < 0 THEN Panicked(c, "expect_write")
    ELSE [c EXCEPT !.log = Append(@, <<"send", packet>>),
                   !.out = @ \o write_var_int(Len(packet))
                             \o (IF n >= Len(packet) THEN packet
                                  ELSE Take(packet, n))]

\* .unwrap() of a read result.
Unwrapped(c, r) ==
    IF Alive(c) /\ r.err # "Ok"
    THEN [Panicked(c, "unwrap") EXCEPT !.violation = r.err]
    ELSE c

(***************************************************************************)
(* Connection::handle_packet.  The fields of a packet are read one after   *)
(* the other and each read is unwrapped: the first read that fails is the  *)
(* one the handler panics on.  read_handshake_start and read_login_start   *)
(* are the reads of the two arms, with the error of the first failing read *)
(* (err "Panic" when the read itself panics).  writes is what the          *)
(* transport does at the send_packet calls of the handler.                 *)
(***************************************************************************)
read_handshake_start(data) ==
    LET protocol_version == read_varint(data, 0) IN
    IF protocol_version.err # "Ok" THEN protocol_version
    ELSE LET host == read_string(data, protocol_version.idx, 255) IN
    IF host.err # "Ok" THEN host
    ELSE LET port == read_short(data, host.idx) IN
    IF port.err # "Ok" THEN port
    ELSE LET next_state == read_varint(data, port.idx) IN
    IF next_state.err # "Ok" THEN next_state
    ELSE Res("Ok", [protocol_version |-> protocol_version.value,
                    host |-> host.value, port |-> port.value,
                    next_state |-> next_state.value], next_state.idx)

\* The arm of HandshakeServerboundStart once its fields f are read.
handshake_start(c, f, shutdown_ok) ==
    IF f.err # "Ok" THEN Unwrapped(c, f)
    ELSE IF f.value.next_state = 1 THEN SetState(c, "Status")
    ELSE IF f.value.next_state = 2 THEN SetState(c, "Login")
    ELSE disconnect(c, shutdown_ok)

HandleHandshakeStart(c, data, shutdown_ok) ==
    handshake_start(c, read_handshake_start(data), shutdown_ok)

\* send_packet of the first packet a handler sends.
send_first(c, packet, writes) ==
    send_packet(c, packet, accepted(writes, 1, packet))

HandleStatusRequest(c, writes) ==
    send_first(c, write_packet_type("StatusClientboundResponse")
                  \o write_string(StatusJson), writes)

\* The arm of StatusServerboundPing once its value is read.
status_ping(c, value, writes) ==
    IF value.err = "Panic" THEN Panicked(c, "index")
    ELSE IF value.err # "Ok" THEN Unwrapped(c, value)
    ELSE send_first(c, write_packet_type("StatusClientboundPong")
                       \o write_long(value.value), writes)

HandleStatusPing(c, data, writes) ==
    status_ping(c, read_long(data, 0), writes)

read_login_start(data) ==
    LET name == read_string(data, 0, 16) IN
    IF name.err # "Ok" THEN name
    ELSE LET uuid == read_optional_uuid(data, name.idx) IN
    IF uuid.err # "Ok" THEN uuid
    ELSE Res("Ok", [name |-> name.value, uuid |-> uuid.value], uuid.idx)

\* A slip: the abilities go out before the difficulty.
PlayPackets_reordered ==
    << PlayLoginBody, AbilitiesBody, DifficultyBody, SpawnPositionBody >>

\* The packets the arm of LoginServerboundStart sends once the phase is Play.
PlayPackets ==
    << PlayLoginBody, DifficultyBody, AbilitiesBody, SpawnPositionBody >>

\* send_packet of packets[k], packets[k + 1], ...; the n-th send_packet of
\* the handler is the one of packets[n - 1].
RECURSIVE send_play_packets(_, _, _)
send_play_packets(c, k, writes) ==
    IF k > Len(PlayPackets) THEN c
    ELSE send_play_packets(
             send_packet(c, PlayPackets[k],
                         accepted(writes, k + 1, PlayPackets[k])),
             k + 1, writes)

\* set_state(Play) and the packets after it; sent is the connection after
\* the send_packet of LoginClientboundSuccess.
login_play(sent, writes) ==
    IF Alive(sent) THEN send_play_packets(SetState(sent, "Play"), 1, writes)
    ELSE sent

\* The arm of LoginServerboundStart once its fields f are read: the uuid is
\* the one of the packet or, without one, Uuid::new_v4().
login_start(c, f, new_v4, writes) ==
    IF f.err = "Panic" THEN Panicked(c, "index")
    ELSE IF f.err # "Ok" THEN Unwrapped(c, f)
    ELSE IF f.value.uuid = <<>>
         THEN login_play(send_first([c EXCEPT !.rng = <<new_v4>>],
                             write_packet_type("LoginClientboundSuccess")
                             \o write_uuid(new_v4)
                             \o write_string(f.value.name)
                             \o write_var_int(0), writes), writes)
    ELSE login_play(send_first(c,
                        write_packet_type("LoginClientboundSuccess")
                        \o write_uuid(f.value.uuid[1])
                        \o write_string(f.value.name)
                        \o write_var_int(0), writes), writes)

HandleLoginStart(c, data, new_v4, writes) ==
    login_start(c, read_login_start(data), new_v4, writes)

\* The match of handle_packet on the packet type; c has the packet logged.
handle_packet_match(c, packet, new_v4, writes, shutdown_ok) ==
    CASE packet.packet_type = "HandshakeServerboundStart" ->
             HandleHandshakeStart(c, packet.data, shutdown_ok)
      [] packet.packet_type = "StatusServerboundRequest" ->
             HandleStatusRequest(c, writes)
      [] packet.packet_type = "StatusServerboundPing" ->
             HandleStatusPing(c, packet.data, writes)
      [] packet.packet_type = "LoginServerboundStart" ->
             HandleLoginStart(c, packet.data, new_v4, writes)
      [] OTHER -> disconnect(c, shutdown_ok)

handle_packet(c, packet, new_v4, writes, shutdown_ok) ==
    handle_packet_match(
        [c EXCEPT !.log =
            Append(@, <<"dispatch", packet.packet_type, packet.data>>)],
        packet, new_v4, writes, shutdown_ok)

(***************************************************************************)
(* Connection::try_to_parse_packet.  The result is the connection after    *)
(* the call and ret: "true" for Ok(true), "false" for Ok(false), "err"     *)
(* for Err(ConnectionError::Other), "panic" when the task panicked.        *)
(***************************************************************************)
\* A slip: the whole accumulation buffer goes with the frame.
drain_all(c, raw_size) ==
    [c EXCEPT !.current_packet = <<>>,
              !.consumed = Append(@, Take(c.current_packet, raw_size))]

\* A slip: the decoded frame stays at the front of the accumulation buffer.
drain_nothing(c, raw_size) ==
    [c EXCEPT !.consumed = Append(@, Take(c.current_packet, raw_size))]

\* self.current_packet.drain(..packet.raw_size)
drain(c, raw_size) ==
    [c EXCEPT !.current_packet = Drop(@, raw_size),
              !.consumed = Append(@, Take(c.current_packet, raw_size))]

\* Ok(true) after handle_packet, unless the handler panicked.
handled(h) == [c |-> h, ret |-> IF Alive(h) THEN "true" ELSE "panic"]

\* A slip: a frame that is not complete is thrown away.
decode_failed_discarding(c, e) ==
    IF e = "PacketTooSmall"
    THEN [c |-> [c EXCEPT !.current_packet = <<>>], ret |-> "false"]
    ELSE IF e = "Panic" THEN [c |-> Panicked(c, "overflow"), ret |-> "panic"]
    ELSE [c |-> [c EXCEPT !.violation = e], ret |-> "err"]

\* A slip: PacketTooSmall has no arm of its own and is an error like the rest.
decode_failed_strict(c, e) ==
    IF e = "Panic" THEN [c |-> Panicked(c, "overflow"), ret |-> "panic"]
    ELSE [c |-> [c EXCEPT !.violation = e], ret |-> "err"]

\* The arms Err(PacketTooSmall) and Err(e) of the match on Packet::decode,
\* and the panic of the subtraction in Packet::read.
decode_failed(c, e) ==
    IF e = "PacketTooSmall" THEN [c |-> c, ret |-> "false"]
    ELSE IF e = "Panic" THEN [c |-> Panicked(c, "overflow"), ret |-> "panic"]
    ELSE [c |-> [c EXCEPT !.violation = e], ret |-> "err"]

\* The match on the result r of Packet::decode.
decode_match(c, r, new_v4, writes, shutdown_ok) ==
    IF r.err = "Ok"
    THEN handled(handle_packet(drain(c, r.value.raw_size), r.value,
                               new_v4, writes, shutdown_ok))
    ELSE decode_failed(c, r.err)

try_to_parse_packet(c, new_v4, writes, shutdown_ok) ==
    decode_match([c EXCEPT !.decoded = TRUE],
                 decode(c.current_packet, c.state),
                 new_v4, writes, shutdown_ok)

\* A slip: the loop is left without disconnect.
process_err_break_only(c, e, shutdown_ok) ==
    [c EXCEPT !.err = e, !.decoded = FALSE, !.pc = "done"]

\* process leaves its loop, unless disconnect panicked.
loop_left(d) == IF Alive(d) THEN [d EXCEPT !.pc = "done"] ELSE d

\* The Err(e) arm of process: disconnect and leave the loop.
process_err(c, e, shutdown_ok) ==
    loop_left(disconnect([c EXCEPT !.err = e, !.decoded = FALSE], shutdown_ok))

\* What the loop of data_read, and process after it, do with the result r
\* of try_to_parse_packet: Ok(true) goes round the loop, Ok(false) returns
\* to process, which reads again, and an error goes to the Err arm of
\* process.
data_read_match(r, shutdown_ok) ==
    CASE r.ret = "true"  -> r.c
      [] r.ret = "false" ->
           [r.c EXCEPT !.pc = "read",
                       !.split = @ \/ r.c.current_packet # <<>>]
      [] r.ret = "err"   ->
           [process_err(r.c, "Decoding", shutdown_ok) EXCEPT !.decoded = TRUE]
      [] OTHER           -> r.c

\* A slip: the loop of data_read does not look at the phase.
data_read_step_unchecked(c, new_v4, writes, shutdown_ok) ==
    data_read_match(try_to_parse_packet(c, new_v4, writes, shutdown_ok),
                    shutdown_ok)

\* One iteration of the loop of data_read, with what process does with the
\* value data_read returns.
data_read_step(c, new_v4, writes, shutdown_ok) ==
    IF c.state = "Disconnected" THEN [c EXCEPT !.pc = "read", !.decoded = FALSE]
    ELSE data_read_match(try_to_parse_packet(c, new_v4, writes, shutdown_ok),
                         shutdown_ok)

\* A slip: the bytes read go in front of the accumulation buffer.
data_read_append_in_front(c, bytes) ==
    [c EXCEPT !.current_packet = bytes \o @, !.pc = "parse",
              !.decoded = FALSE]

\* A slip: the bytes read replace the accumulation buffer.
data_read_append_assign(c, bytes) ==
    [c EXCEPT !.current_packet = bytes, !.pc = "parse", !.decoded = FALSE]

\* data_read up to the loop: the bytes read move to the accumulation buffer.
data_read_append(c, bytes) ==
    [c EXCEPT !.current_packet = @ \o bytes, !.pc = "parse",
              !.decoded = FALSE]

(***************************************************************************)
(* The actions.                                                            *)
(***************************************************************************)
\* The variables of a connection after Connection::create.
ConnectionInit ==
    /\ state = create.state
    /\ temp_buffer = <<>>
    /\ current_packet = create.current_packet
    /\ pc = create.pc
    /\ log = create.log
    /\ consumed = create.consumed
    /\ shutdowns = create.shutdowns
    /\ disconnects = create.disconnects
    /\ decoded = create.decoded
    /\ split = create.split
    /\ err = create.err
    /\ panic = create.panic
    /\ wire = <<>>
    /\ nsent = 0
    /\ received = <<>>
    /\ rng = create.rng
    /\ violation = create.violation
    /\ out = create.out

Init == ConnectionInit /\ CodecIdle /\ ServerIdle

\* The peer sends one more frame; its bytes wait in the socket.
PeerSend ==
    /\ pc = "read"
    /\ nsent < MaxFrames
    /\ \E f \in 1..Len(Catalogue) : wire' = wire \o Catalogue[f]
    /\ nsent' = nsent + 1
    /\ UNCHANGED << state, temp_buffer, current_packet, pc, log, consumed,
                    shutdowns, disconnects, decoded, split, err, panic,
                    violation, rng, out, received >>
    /\ UNCHANGED << codecVars, serverVars >>

\* try_read, Ok(n) with n > 0: try_read_buf moves the first n waiting bytes
\* to temp_buffer and data_read appends them to current_packet.
ReadData ==
    /\ pc = "read"
    /\ \E n \in 1..Len(wire) :
          /\ Become(data_read_append(Self, temp_buffer \o Take(wire, n)))
          /\ received' = received \o Take(wire, n)
          /\ wire' = Drop(wire, n)
    /\ temp_buffer' = <<>>
    /\ UNCHANGED nsent
    /\ UNCHANGED << codecVars, serverVars >>

\* try_read, Err(WouldBlock): Ok(()) and the loop of process goes round.
ReadWouldBlock ==
    /\ pc = "read"
    /\ UNCHANGED vars
    /\ UNCHANGED << codecVars, serverVars >>

\* try_read, Ok(0): the peer has closed the stream.
ReadEndOfStream ==
    /\ pc = "read"
    /\ wire = <<>>
    /\ \E shutdown_ok \in BOOLEAN :
          Become(process_err(Self, "EndOfStream", shutdown_ok))
    /\ UNCHANGED << temp_buffer, wire, nsent, received >>
    /\ UNCHANGED << codecVars, serverVars >>

\* try_read, an I/O error of readable() or of try_read_buf.
ReadIoError ==
    /\ pc = "read"
    /\ \E shutdown_ok \in BOOLEAN :
          Become(process_err(Self, "Io", shutdown_ok))
    /\ UNCHANGED << temp_buffer, wire, nsent, received >>
    /\ UNCHANGED << codecVars, serverVars >>

\* What the environment can answer to one iteration of the loop of
\* data_read: the value of Uuid::new_v4(), which send_packet fails (0 for
\* none) and whether stream.shutdown() succeeds.  The iteration run with
\* answers that let it go on (b, from the connection c) shows which of them
\* it asks for; the answers it does not ask for are not enumerated.
AnyUuid == CHOOSE u \in UuidChoices : TRUE

\* The byte counts a stream.write that does not take the whole packet may
\* return.
ShortWrites == {1, 8}

\* A transport that takes every byte it is offered.
AllWritten == [at |-> 0, n |-> 0]

\* What the transport may do at the nsends calls of send_packet of a handler.
Writes(nsends) ==
    {AllWritten} \cup [at : 1..nsends, n : {-1} \cup ShortWrites]

IsSend(e) == e[1] = "send"

Asked(c, b) ==
    [new_v4 : IF b.rng # c.rng THEN UuidChoices ELSE {AnyUuid},
     writes : Writes(Len(SelectSeq(b.log, IsSend))
                      - Len(SelectSeq(c.log, IsSend))),
     shutdown_ok : IF b.shutdowns # c.shutdowns THEN BOOLEAN ELSE {TRUE}]

Answers(c) == Asked(c, data_read_step(c, AnyUuid, AllWritten, TRUE))

\* One iteration of the loop of data_read.
ParseStep ==
    /\ pc = "parse"
    /\ \E a \in Answers(Self) :
          Become(data_read_step(Self, a.new_v4, a.writes, a.shutdown_ok))
    /\ UNCHANGED << temp_buffer, wire, nsent, received >>
    /\ UNCHANGED << codecVars, serverVars >>

Next ==
    \/ PeerSend
    \/ ReadData
    \/ ReadWouldBlock
    \/ ReadEndOfStream
    \/ ReadIoError
    \/ ParseStep

Spec == Init /\ [][Next]_<< vars, codecVars, serverVars >>

\* The loop of data_read is straight-line code of one task: an iteration
\* that has been entered is run to its end.  This is weak fairness of
\* ParseStep, written out with pc = "parse" for the states in which
\* ParseStep is enabled: a connection that stays in the loop for ever takes
\* infinitely many iterations.
FairSpec ==
    /\ Spec
    /\ \/ []<>(pc # "parse")
       \/ []<><<ParseStep>>_<< vars, codecVars, serverVars >>

(***************************************************************************)
(* Delivery of bytes in a single read to a fresh connection with a         *)
(* transport that does not fail: the whole decode pass of data_read.       *)
(***************************************************************************)
RECURSIVE RunPass(_, _)
RunPass(c, new_v4) ==
    IF c.pc # "parse" THEN c
    ELSE RunPass(data_read_step(c, new_v4, AllWritten, TRUE), new_v4)

SingleRead(bytes, new_v4) ==
    IF bytes = <<>> THEN create
    ELSE RunPass(data_read_append(create, bytes), new_v4)

TypeOK ==
    /\ state \in ConnectionState
    /\ pc \in {"read", "parse", "done", "panicked"}
    /\ err \in {"none", "EndOfStream", "Io", "Decoding"}
    /\ panic \in {"none", "unwrap", "index", "overflow",
                  "expect_write", "expect_shutdown"}
    /\ (pc = "panicked") = (panic # "none")
    /\ violation \in {"none", "PacketTooSmall", "VarIntTooBig", "InvalidPacketId",
                      "StringTooSmall", "StringTooLarge", "StringInvalidUtf8"}
    /\ temp_buffer = <<>>
    /\ nsent \in 0..MaxFrames

(***************************************************************************)
(* The codec exercised alone.  A call is drawn from the calls below and    *)
(* one action per function applies the function to it.                     *)
(***************************************************************************)
\* Packet::decode of one encoded frame, with the bytes rest behind it.
PacketIds == {0, 1, 2, 5, 128, -1}

PayloadOfLen(n) == [i \in 1..n |-> (i * 7) % 256]

Payloads ==
    { <<>>, <<7>>, <<128, 128, 128, 128, 128>>,
      PayloadOfLen(126), PayloadOfLen(127), PayloadOfLen(16383) }

Rests == { <<>>, <<0>>, <<255, 1, 0>> }

DecodeCalls ==
    [op : {"decode"}, st : ConnectionState, id : PacketIds,
     payload : Payloads, rest : Rests]

\* write_var_int of x and read_varint of the bytes written.  The values are
\* those around 0 and around the powers 2^7, 2^14, 2^21, 2^28 and 2^31
\* where the number of groups changes, with either sign.
MaxSmallVarInt == 300

VarIntEdges == {127, 16383, 2097151, 268435455, 2147483646}

VarIntValues ==
    (-MaxSmallVarInt .. MaxSmallVarInt)
    \cup VarIntEdges \cup { e + 1 : e \in VarIntEdges }
    \cup { -e : e \in VarIntEdges } \cup { -e - 1 : e \in VarIntEdges }
    \cup { MinI32 }

VarIntCalls == [op : {"var_int"}, x : VarIntValues]

\* read_varint on a reader at the start of a buffer: every buffer of up to
\* MaxVarIntBuffer bytes with or without continuation bit.
MaxVarIntBuffer == 6

VarIntBytes == {0, 1, 127, 128, 255}

VarIntBuffers == UNION { [1..n -> VarIntBytes] : n \in 0..MaxVarIntBuffer }

ReadVarIntCalls == [op : {"read_varint"}, buf : VarIntBuffers]

\* read_string(max_length) on a reader at the start of a buffer that holds
\* the length prefix size followed by content, whatever size says.
MaxStringContent == 18

AsciiOfLen(n) == [i \in 1..n |-> 97 + (i % 26)]

StringSizes == (-2..MaxStringContent) \cup {255, 256, 2147483647, MinI32}

StringContents ==
    { AsciiOfLen(n) : n \in 0..MaxStringContent }
        \cup { <<195, 169>>, <<195>>, <<255>>, <<97, 128>> }

\* The bounds the handlers pass: 255 for the server address, 16 for the name.
StringBounds == {16, 255}

ReadStringCalls ==
    [op : {"read_string"}, size : StringSizes, content : StringContents,
     max_length : StringBounds]

\* read_short, read_long and read_uuid on a reader at the start of a buffer
\* of 0 to MaxFixedBuffer bytes.
MaxFixedBuffer == 17

FixedBuffers ==
    { PayloadOfLen(n) : n \in 0..MaxFixedBuffer }
        \cup { [i \in 1..n |-> 255] : n \in 0..MaxFixedBuffer }

ReadFixedCalls ==
    [op : {"read_short", "read_long", "read_uuid"}, buf : FixedBuffers]

\* Packet::decode on any buffer of up to MaxRawBuffer bytes, framed or not:
\* 255 255 255 255 15 is the length -1, 128 0 is a two-byte varint of 0.
MaxRawBuffer == 6

RawBytes == {0, 1, 15, 128, 255}

RawBuffers == UNION { [1..n -> RawBytes] : n \in 0..MaxRawBuffer }

DecodeRawCalls == [op : {"decode_raw"}, st : ConnectionState, buf : RawBuffers]

CodecInit ==
    /\ ConnectionInit
    /\ ServerIdle
    /\ called = FALSE
    /\ ret = <<>>
    /\ \/ call \in DecodeCalls
       \/ call \in VarIntCalls
       \/ call \in ReadVarIntCalls
       \/ call \in ReadStringCalls
       \/ call \in ReadFixedCalls
       \/ call \in DecodeRawCalls

CallDecode ==
    /\ ~called
    /\ call.op = "decode"
    /\ ret' = decode(Frame(call.id, call.payload) \o call.rest, call.st)
    /\ called' = TRUE
    /\ UNCHANGED << call, vars, serverVars >>

CallVarInt ==
    /\ ~called
    /\ call.op = "var_int"
    /\ ret' = [bytes |-> write_var_int(call.x),
               back |-> read_varint(write_var_int(call.x), 0)]
    /\ called' = TRUE
    /\ UNCHANGED << call, vars, serverVars >>

CallReadVarInt ==
    /\ ~called
    /\ call.op = "read_varint"
    /\ ret' = read_varint(call.buf, 0)
    /\ called' = TRUE
    /\ UNCHANGED << call, vars, serverVars >>

CallReadString ==
    /\ ~called
    /\ call.op = "read_string"
    /\ ret' = read_string(write_var_int(call.size) \o call.content, 0,
                          call.max_length)
    /\ called' = TRUE
    /\ UNCHANGED << call, vars, serverVars >>

CallReadShort ==
    /\ ~called
    /\ call.op = "read_short"
    /\ ret' = read_short(call.buf, 0)
    /\ called' = TRUE
    /\ UNCHANGED << call, vars, serverVars >>

CallReadLong ==
    /\ ~called
    /\ call.op = "read_long"
    /\ ret' = read_long(call.buf, 0)
    /\ called' = TRUE
    /\ UNCHANGED << call, vars, serverVars >>

CallReadUuid ==
    /\ ~called
    /\ call.op = "read_uuid"
    /\ ret' = read_uuid(call.buf, 0)
    /\ called' = TRUE
    /\ UNCHANGED << call, vars, serverVars >>

CallDecodeRaw ==
    /\ ~called
    /\ call.op = "decode_raw"
    /\ ret' = decode(call.buf, call.st)
    /\ called' = TRUE
    /\ UNCHANGED << call, vars, serverVars >>

CodecNext ==
    \/ CallDecode
    \/ CallVarInt
    \/ CallReadVarInt
    \/ CallReadString
    \/ CallReadShort
    \/ CallReadLong
    \/ CallReadUuid
    \/ CallDecodeRaw

CodecSpec == CodecInit /\ [][CodecNext]_<< vars, codecVars, serverVars >>

(***************************************************************************)
(* The server: main accepts connections and spawns one task for each; the  *)
(* task creates its Connection and runs process.  A read takes all the     *)
(* bytes that wait (the ways one stream may be split into reads are those  *)
(* of the single connection above).                                        *)
(***************************************************************************)
MaxConnections == 2

\* What the peer of a connection sends, frame after frame.
Scripts ==
    << << HandshakeStart(2), Frame(0, write_string(Alice) \o <<0>>) >>,
       << HandshakeStart(3) >>,
       << Frame(0, <<17>>) >>,
       << <<128, 128, 128, 128, 128>> >> >>

\* tokio::spawn(async move { ... }): a task that has not run yet.
spawned(script) ==
    [created |-> FALSE, id |-> 0, c |-> create, wire |-> <<>>,
     script |-> script, sent |-> 0]

\* A slip: the accumulation buffer is one buffer for all connections.
task_step_shared_buffer(ts, i, t) ==
    [j \in 1..Len(ts) |->
        IF j = i THEN t
        ELSE [ts[j] EXCEPT !.c.current_packet = t.c.current_packet]]

\* A step of task i, which owns its connection (async move): the step
\* leaves the task as t; a panic of the task ends this task only.
task_step(ts, i, t) == [ts EXCEPT ![i] = t]

ServerInit ==
    /\ ConnectionInit
    /\ CodecIdle
    /\ tasks = <<>>
    /\ next_id = 0
    /\ listening = TRUE

\* listener.accept() returns a socket and main spawns its task.
ServerAccept ==
    /\ listening
    /\ Len(tasks) < MaxConnections
    /\ \E script \in 1..Len(Scripts) : tasks' = Append(tasks, spawned(script))
    /\ UNCHANGED << next_id, listening, vars, codecVars >>

\* listener.accept() returns an error: unwrap panics in main and the
\* process ends with all its tasks.
ServerAcceptFails ==
    /\ listening
    /\ listening' = FALSE
    /\ tasks' = <<>>
    /\ UNCHANGED << next_id, vars, codecVars >>

\* Connection::create in the task: the id is NEXT_CONNECTION_ID.fetch_add(1).
TaskCreate ==
    /\ listening
    /\ \E i \in 1..Len(tasks) :
          /\ ~tasks[i].created
          /\ tasks' = task_step(tasks, i,
                          [tasks[i] EXCEPT !.created = TRUE, !.id = next_id])
    /\ next_id' = next_id + 1
    /\ UNCHANGED << listening, vars, codecVars >>

\* The peer of a connection sends its next frame.
TaskPeerSend ==
    /\ listening
    /\ \E i \in 1..Len(tasks) :
          /\ tasks[i].c.pc = "read"
          /\ tasks[i].sent < Len(Scripts[tasks[i].script])
          /\ tasks' = [tasks EXCEPT
                          ![i].wire = @ \o Scripts[tasks[i].script][tasks[i].sent + 1],
                          ![i].sent = @ + 1]
    /\ UNCHANGED << next_id, listening, vars, codecVars >>

\* try_read of a task, Ok(n) with n > 0.
TaskRead ==
    /\ listening
    /\ \E i \in 1..Len(tasks) :
          /\ tasks[i].created
          /\ tasks[i].c.pc = "read"
          /\ tasks[i].wire # <<>>
          /\ tasks' = task_step(tasks, i,
                          [tasks[i] EXCEPT
                              !.c = data_read_append(@, tasks[i].wire),
                              !.wire = <<>>])
    /\ UNCHANGED << next_id, listening, vars, codecVars >>

\* try_read of a task, Ok(0) or an I/O error.
TaskReadFails ==
    /\ listening
    /\ \E i \in 1..Len(tasks) :
          /\ tasks[i].created
          /\ tasks[i].c.pc = "read"
          /\ \E e \in {"EndOfStream", "Io"}, shutdown_ok \in BOOLEAN :
                /\ e = "EndOfStream" => tasks[i].wire = <<>>
                /\ tasks' = task_step(tasks, i,
                                [tasks[i] EXCEPT
                                    !.c = process_err(@, e, shutdown_ok)])
    /\ UNCHANGED << next_id, listening, vars, codecVars >>

\* One iteration of the loop of data_read of a task.
TaskParse ==
    /\ listening
    /\ \E i \in 1..Len(tasks) :
          /\ tasks[i].created
          /\ tasks[i].c.pc = "parse"
          /\ \E a \in Answers(tasks[i].c) :
                tasks' = task_step(tasks, i,
                            [tasks[i] EXCEPT
                                !.c = data_read_step(@, a.new_v4, a.writes,
                                                     a.shutdown_ok)])
    /\ UNCHANGED << next_id, listening, vars, codecVars >>

ServerNext ==
    \/ ServerAccept
    \/ ServerAcceptFails
    \/ TaskCreate
    \/ TaskPeerSend
    \/ TaskRead
    \/ TaskReadFails
    \/ TaskParse

ServerSpec ==
    ServerInit /\ [][ServerNext]_<< vars, codecVars, serverVars >>

(***************************************************************************)
(* What the transport did to the connection, as opposed to what the bytes  *)
(* received made it do: the stream ended or failed, or a write or the      *)
(* shutdown failed.                                                        *)
(***************************************************************************)
TransportFault ==
    \/ err \in {"EndOfStream", "Io"}
    \/ panic \in {"expect_write", "expect_shutdown"}

\* What Uuid::new_v4() returned on this connection, if it was called.
NewV4 == IF rng = <<>> THEN CHOOSE u \in UuidChoices : TRUE ELSE rng[1]

\* The accumulation buffer holds a frame that cannot be decoded yet.
Incomplete(buf, st) == decode(buf, st).err = "PacketTooSmall"

Dispatches == SelectSeq(log, LAMBDA e : e[1] = "dispatch")

Sends == SelectSeq(log, LAMBDA e : e[1] = "send")

(***************************************************************************)
(* C1  Fragmentation invariance.  Whenever the task is not inside a decode *)
(* pass and the transport has not failed, the packets dispatched, the      *)
(* phase changes and the packets sent (log, in order), the phase, the      *)
(* accumulation buffer and the way the task ended are those of a fresh     *)
(* connection that got all the bytes received so far in a single read.     *)
(***************************************************************************)
C1_FragmentationInvariance ==
    (pc # "parse" /\ ~TransportFault) =>
        LET w == SingleRead(received, NewV4) IN
        /\ log = w.log
        /\ state = w.state
        /\ current_packet = w.current_packet
        /\ consumed = w.consumed
        /\ pc = w.pc
        /\ err = w.err
        /\ panic = w.panic
        /\ violation = w.violation
        /\ rng = w.rng

\* Two valid frames, the second one cut by a read, both dispatched.
C1_Witness ==
    /\ split
    /\ pc = "read"
    /\ wire = <<>>
    /\ current_packet = <<>>
    /\ received = Catalogue[2] \o Catalogue[6]
    /\ state = "Play"
    /\ Len(Dispatches) = 2
    /\ Len(Sends) = 5

(***************************************************************************)
(* C2  Incomplete-frame non-mutation.  A step of the decode pass in which  *)
(* Packet::decode reports PacketTooSmall leaves the accumulation buffer,   *)
(* the frames consumed and the phase as they were.                         *)
(***************************************************************************)
C2_IncompleteNonMutation ==
    [][(pc = "parse" /\ state # "Disconnected"
           /\ Incomplete(current_packet, state))
       => (/\ current_packet' = current_packet
           /\ consumed' = consumed
           /\ state' = state)]_vars

\* A decode pass has just ended on bytes that are not a whole frame.
C2_Witness ==
    /\ pc = "read"
    /\ decoded
    /\ state # "Disconnected"
    /\ current_packet # <<>>
    /\ Incomplete(current_packet, state)

(***************************************************************************)
(* C3  Buffer invariant.  The bytes received are the frames consumed, in   *)
(* order, followed by the accumulation buffer (and by temp_buffer, empty   *)
(* between two steps), and every frame consumed is a length varint         *)
(* followed by exactly as many bytes as it declares.                       *)
(***************************************************************************)
ExactFrame(f) ==
    LET len == read_varint(f, 0)
    IN  len.err = "Ok" /\ Len(f) = len.idx + len.value

C3_BufferInvariant ==
    /\ received = Flatten(consumed) \o current_packet \o temp_buffer
    /\ \A i \in 1..Len(consumed) : ExactFrame(consumed[i])

\* One frame consumed and, behind it, a part of the next one kept.
C3_Witness ==
    /\ pc = "read"
    /\ Len(consumed) = 1
    /\ current_packet # <<>>
    /\ state = "Status"
    /\ Incomplete(current_packet, state)

(***************************************************************************)
(* C4  Parking on an incomplete frame.  While the accumulation buffer      *)
(* starts with a length varint that declares more bytes than follow it, a  *)
(* step in which no read returns bytes, end-of-stream or an error          *)
(* dispatches nothing, sends nothing, changes neither the phase nor the    *)
(* buffer, shuts nothing down and leaves the loop of process running.      *)
(***************************************************************************)
DeclaredExceeds(buf) ==
    LET len == read_varint(buf, 0)
    IN  len.err = "Ok" /\ len.value > Len(buf) - len.idx

C4_ParkedOnIncompleteFrame ==
    [][(DeclaredExceeds(current_packet) /\ received' = received /\ err' = err)
       => (/\ log' = log
           /\ state' = state
           /\ current_packet' = current_packet
           /\ shutdowns' = shutdowns
           /\ disconnects' = disconnects
           /\ panic' = panic
           /\ pc' \in {"read", "parse"})]_vars

\* Parked in Status behind 2 of the 9 bytes a ping declares.
C4_Witness ==
    /\ pc = "read"
    /\ decoded
    /\ state = "Status"
    /\ DeclaredExceeds(current_packet)
    /\ err = "none"
    /\ Len(Dispatches) = 1

(***************************************************************************)
(* C5  (the claim as stated)  Once the phase is Disconnected the loop of   *)
(* process is not back at a read and no read brings bytes any more.        *)
(***************************************************************************)
C5_NoReadAfterDisconnect ==
    [][state = "Disconnected"
       => (pc' # "read" /\ received' = received
           /\ current_packet' = current_packet)]_vars

(***************************************************************************)
(* C6  (the claim as stated)  A protocol violation ends the connection     *)
(* through disconnect and never by a panic of its task: after a decode     *)
(* error the phase is Disconnected and the stream has been shut down, and  *)
(* no task has panicked on a violation met in a payload field.             *)
(***************************************************************************)
ProtocolViolations ==
    {"InvalidPacketId", "StringTooLarge", "StringInvalidUtf8", "VarIntTooBig"}

C6_ViolationsDisconnectOrderly ==
    violation \in ProtocolViolations =>
        /\ panic # "unwrap"
        /\ state = "Disconnected"
        /\ shutdowns = 1

(***************************************************************************)
(* C7  Disconnected is terminal and idempotent.  From a state whose phase  *)
(* is Disconnected every step leaves the phase Disconnected and calls      *)
(* stream.shutdown() no more, a further call of disconnect included.       *)
(***************************************************************************)
C7_DisconnectedTerminal ==
    [][state = "Disconnected"
       => (state' = "Disconnected" /\ shutdowns' = shutdowns)]_vars

\* disconnect has been called a second time, by process after a handler.
C7_Witness ==
    /\ state = "Disconnected"
    /\ disconnects = 2
    /\ shutdowns = 1
    /\ pc = "done"

(***************************************************************************)
(* C8  Decoding stops at Disconnected.  From a state whose phase is        *)
(* Disconnected no step calls Packet::decode, consumes a frame,            *)
(* dispatches a packet or sends one.                                       *)
(***************************************************************************)
C8_NoDecodeWhenDisconnected ==
    [][state = "Disconnected"
       => (~decoded' /\ log' = log /\ consumed' = consumed)]_vars

HeadComplete(buf) ==
    LET len == read_varint(buf, 0)
    IN  len.err = "Ok" /\ len.value >= 1 /\ len.value <= Len(buf) - len.idx

\* A handler has disconnected and the decode pass has ended with a whole
\* frame left in the accumulation buffer.
C8_Witness ==
    /\ state = "Disconnected"
    /\ pc = "read"
    /\ err = "none"
    /\ HeadComplete(current_packet)
    /\ Len(Dispatches) = 1

(***************************************************************************)
(* C9  Teardown on terminal conditions.  Once try_read has returned an     *)
(* error to process (end-of-stream, an I/O error, a decode error) the      *)
(* phase is Disconnected, stream.shutdown() has been called once and the   *)
(* loop of process has ended.                                              *)
(***************************************************************************)
C9_TeardownOnError ==
    err # "none" =>
        /\ state = "Disconnected"
        /\ shutdowns = 1
        /\ pc \in {"done", "panicked"}
        /\ panic \in {"none", "expect_shutdown"}

\* A decode error has ended the loop.
C9_Witness ==
    /\ err = "Decoding"
    /\ violation = "InvalidPacketId"
    /\ pc = "done"
    /\ state = "Disconnected"

(***************************************************************************)
(* C10  Phase transitions.  A connection starts in Handshake and every     *)
(* step that changes the phase goes from Handshake to Status or Login,     *)
(* from Login to Play, or from a phase other than Disconnected to          *)
(* Disconnected.                                                           *)
(***************************************************************************)
PhaseChanges ==
    { <<"Handshake", "Status">>, <<"Handshake", "Login">>, <<"Login", "Play">> }
    \cup { <<p, "Disconnected">> : p \in ConnectionState \ {"Disconnected"} }

C10_PhaseTransitions ==
    /\ state = "Handshake"
    /\ [][state' # state => <<state, state'>> \in PhaseChanges]_vars

\* Handshake -> Login -> Play -> Disconnected.
C10_Witness ==
    /\ state = "Disconnected"
    /\ SelectSeq(log, LAMBDA e : e[1] = "phase")
         = << <<"phase", "Login">>, <<"phase", "Play">>,
              <<"phase", "Disconnected">> >>

(***************************************************************************)
(* C11  Phase-id scoping.  A complete frame with id 0 decodes to the       *)
(* handshake start under Handshake, to the status request under Status and *)
(* to the login start under Login; under Play, and for every (phase, id)   *)
(* that is not registered, decode fails with InvalidPacketId(id, phase),   *)
(* which try_to_parse_packet treats as an error and not as a frame that is *)
(* not complete yet.                                                       *)
(***************************************************************************)
Registered ==
    { <<"Handshake", 0>>, <<"Status", 0>>, <<"Status", 1>>, <<"Login", 0>> }

C11_PhaseIdScoping ==
    (called /\ call.op = "decode") =>
        /\ (call.id = 0 /\ call.st = "Handshake") =>
               (ret.err = "Ok"
                /\ ret.value.packet_type = "HandshakeServerboundStart")
        /\ (call.id = 0 /\ call.st = "Status") =>
               (ret.err = "Ok"
                /\ ret.value.packet_type = "StatusServerboundRequest")
        /\ (call.id = 0 /\ call.st = "Login") =>
               (ret.err = "Ok"
                /\ ret.value.packet_type = "LoginServerboundStart")
        /\ (<<call.st, call.id>> \notin Registered) =>
               /\ ret.err = "InvalidPacketId"
               /\ packet_id_to_type(call.id, call.st).value
                     = <<call.id, call.st>>
               /\ decode_failed(create, ret.err).ret = "err"

C11_Witness ==
    /\ called
    /\ call.op = "decode"
    /\ call.st = "Play"
    /\ call.id = 0
    /\ call.payload = PayloadOfLen(127)
    /\ ret.err = "InvalidPacketId"

(***************************************************************************)
(* C12  Login scenario.  A fresh connection that is sent handshake-start   *)
(* (protocol 762, host "localhost", port 25565, next state 2) and then     *)
(* login-start (name "Alice", no uuid), in any chunking: as long as the    *)
(* first frame is not complete nothing happens; once it is, the packet is  *)
(* dispatched, the phase is Login and nothing has been sent; once the      *)
(* second is complete, it is dispatched, login success is sent with the    *)
(* uuid drawn and the name, the phase becomes Play and the Play login, the *)
(* difficulty, the abilities and the spawn position are sent, in that      *)
(* order, and the phase stays Play.  The transport is taken not to fail.   *)
(***************************************************************************)
ScenarioHandshakePayload ==
    <<250, 5>> \o <<9>> \o Localhost \o <<99, 221>> \o <<2>>

ScenarioLoginPayload == <<5>> \o Alice \o <<0>>

ScenarioHandshake == <<16, 0>> \o ScenarioHandshakePayload

ScenarioLogin == <<8, 0>> \o ScenarioLoginPayload

LoginScenario == ScenarioHandshake \o ScenarioLogin

IsPrefix(s, t) == Len(s) <= Len(t) /\ s = SubSeq(t, 1, Len(s))

AfterScenarioHandshake ==
    << <<"dispatch", "HandshakeServerboundStart", ScenarioHandshakePayload>>,
       <<"phase", "Login">> >>

C12_LoginScenario ==
    (IsPrefix(received, LoginScenario) /\ pc # "parse" /\ ~TransportFault) =>
        IF Len(received) < Len(ScenarioHandshake)
        THEN log = <<>> /\ state = "Handshake"
        ELSE IF Len(received) < Len(LoginScenario)
        THEN log = AfterScenarioHandshake /\ state = "Login"
        ELSE /\ state = "Play"
             /\ panic = "none"
             /\ Len(log) = 9
             /\ SubSeq(log, 1, 2) = AfterScenarioHandshake
             /\ log[3] = <<"dispatch", "LoginServerboundStart",
                           ScenarioLoginPayload>>
             /\ log[4] = <<"send", <<2>> \o write_uuid(NewV4) \o <<5>>
                                    \o Alice \o <<0>> >>
             /\ log[5] = <<"phase", "Play">>
             /\ [i \in 6..9 |-> log[i][1]] = [i \in 6..9 |-> "send"]
             /\ [i \in 6..9 |-> log[i][2][1]]
                   = (6 :> 40) @@ (7 :> 12) @@ (8 :> 52) @@ (9 :> 80)

C12_Witness ==
    /\ received = LoginScenario
    /\ ~split
    /\ pc = "read"
    /\ panic = "none"
    /\ state = "Play"
    /\ consumed = << ScenarioHandshake, ScenarioLogin >>
    /\ Len(Sends) = 5

(***************************************************************************)
(* C13  FIFO processing.  The frames taken off the accumulation buffer     *)
(* are, in order, a prefix of the byte stream received; there is one       *)
(* dispatch per frame taken off, in the same order; and the k-th packet    *)
(* dispatched is the k-th frame decoded under the phase that everything    *)
(* logged before its dispatch (the handlers of the frames before it, with  *)
(* their phase changes and packets sent) has left, also when several       *)
(* frames arrived in one read.                                             *)
(***************************************************************************)
\* The phase after the phase changes logged in l.
PhaseLeftBy(l) ==
    LET changes == SelectSeq(l, LAMBDA e : e[1] = "phase")
    IN  IF changes = <<>> THEN "Handshake" ELSE changes[Len(changes)][2]

\* The position in the log of the k-th dispatch.
DispatchPosition(k) ==
    CHOOSE i \in 1..Len(log) :
        /\ log[i][1] = "dispatch"
        /\ Len(SelectSeq(SubSeq(log, 1, i), LAMBDA e : e[1] = "dispatch")) = k

C13_FifoProcessing ==
    /\ IsPrefix(Flatten(consumed), received)
    /\ Len(Dispatches) = Len(consumed)
    /\ \A k \in 1..Len(consumed) :
          LET before == SubSeq(log, 1, DispatchPosition(k) - 1)
              frame == decode(consumed[k], PhaseLeftBy(before))
          IN  /\ frame.err = "Ok"
              /\ Dispatches[k] = <<"dispatch", frame.value.packet_type,
                                   frame.value.data>>

C13_Witness ==
    /\ pc = "parse"
    /\ consumed = << HandshakeStart(1) >>
    /\ decoded
    /\ current_packet = Frame(0, <<>>)
    /\ state = "Status"
    /\ Len(Dispatches) = 1

(***************************************************************************)
(* C14  Outbound framing.  As long as no write has reported an error, the  *)
(* bytes the stream has taken are, for the packets handed to send_packet   *)
(* in order, the length of the packet (its id and payload) as a varint     *)
(* followed by all the bytes of the packet, whatever number of bytes each  *)
(* write has taken.                                                        *)
(***************************************************************************)
Framed(packet) == write_var_int(Len(packet)) \o packet

C14_OutboundFraming ==
    (panic # "expect_write") =>
        out = Flatten([i \in 1..Len(Sends) |-> Framed(Sends[i][2])])

(***************************************************************************)
(* C15  Per-connection isolation.  With several tasks interleaved, the     *)
(* connections that have been created have pairwise different ids, and as  *)
(* long as accept does not fail: a step changes at most one task and       *)
(* leaves the connection (phase, accumulation buffer, bytes sent and all   *)
(* the rest) and the id of every other task as they were, whether the      *)
(* step is a read, a decoded packet, an error, the end of the stream or a  *)
(* panic; a step of a task never stops main from listening; and the        *)
(* connection-id counter changes only when a task creates its connection.  *)
(***************************************************************************)
DistinctIds ==
    \A i, j \in 1..Len(tasks) :
        (i # j /\ tasks[i].created /\ tasks[j].created)
            => tasks[i].id # tasks[j].id

C15_PerConnectionIsolation ==
    /\ []DistinctIds
    /\ [][ /\ (\E i \in 1..Len(tasks) :
                  tasks' # <<>> /\ tasks'[i] # tasks[i]) => listening'
           /\ listening' =>
                /\ Len(tasks') >= Len(tasks)
                /\ \A i \in 1..Len(tasks) :
                      tasks'[i] # tasks[i] =>
                          \A j \in 1..Len(tasks) \ {i} : tasks'[j] = tasks[j]
                /\ next_id' # next_id =>
                      \E i \in 1..Len(tasks) :
                          ~tasks[i].created /\ tasks'[i].created
         ]_serverVars

C15_Witness ==
    /\ listening
    /\ \E i, j \in 1..Len(tasks) :
          /\ tasks[i].c.panic = "unwrap"
          /\ tasks[j].c.state = "Play"
          /\ tasks[j].c.panic = "none"
          /\ Len(tasks[j].c.out) = Len(Flatten(
                 [k \in 1..5 |-> Framed(SelectSeq(tasks[j].c.log, IsSend)[k][2])]))
          /\ tasks[i].id > tasks[j].id

(***************************************************************************)
(* C16  Frame round-trip.  For every phase and id registered for it and    *)
(* every payload, the bytes VarInt(len) || VarInt(id) || payload, with or  *)
(* without further bytes behind them, decode under that phase to the       *)
(* packet type registered for (phase, id), the payload itself and a        *)
(* raw_size that is the number of bytes of the frame.                      *)
(***************************************************************************)
RegisteredType(st, id) ==
    CASE st = "Handshake" /\ id = 0 -> "HandshakeServerboundStart"
      [] st = "Status" /\ id = 0 -> "StatusServerboundRequest"
      [] st = "Status" /\ id = 1 -> "StatusServerboundPing"
      [] st = "Login" /\ id = 0 -> "LoginServerboundStart"

\* The number of bytes of the varint of n, 0 <= n < 2^21.
VarIntSize(n) == IF n < 128 THEN 1 ELSE IF n < 16384 THEN 2 ELSE 3

C16_FrameRoundTrip ==
    (called /\ call.op = "decode" /\ <<call.st, call.id>> \in Registered) =>
        /\ ret.err = "Ok"
        /\ ret.value.packet_type = RegisteredType(call.st, call.id)
        /\ ret.value.data = call.payload
        /\ ret.value.raw_size
              = VarIntSize(1 + Len(call.payload)) + 1 + Len(call.payload)

C16_Witness ==
    /\ called
    /\ call.op = "decode"
    /\ call.st = "Status"
    /\ call.id = 1
    /\ Len(call.payload) = 16383
    /\ call.rest = <<255, 1, 0>>
    /\ ret.err = "Ok"
    /\ ret.value.raw_size = 16387
    /\ Len(ret.value.data) = 16383

(***************************************************************************)
(* C17  VarInt round-trip.  For a signed 32-bit integer x, negative ones   *)
(* included, write_var_int(x) emits between 1 and 5 bytes, and read_varint *)
(* on those bytes returns x and has read all of them.                      *)
(***************************************************************************)
C17_VarIntRoundTrip ==
    (called /\ call.op = "var_int") =>
        /\ Len(ret.bytes) \in 1..5
        /\ ret.back.err = "Ok"
        /\ ret.back.value = call.x
        /\ ret.back.idx = Len(ret.bytes)

C17_Witness ==
    /\ called
    /\ call.op = "var_int"
    /\ call.x = -1
    /\ ret.bytes = <<255, 255, 255, 255, 15>>
    /\ ret.back.value = -1

(***************************************************************************)
(* C18  Bounded varint decoding.  read_varint reads at most 5 bytes and    *)
(* none past the end of the buffer.  When the first five bytes all carry   *)
(* the continuation bit it fails with VarIntTooBig.  When the buffer has   *)
(* fewer than five bytes and all of them carry the continuation bit (the   *)
(* empty buffer included) it fails with PacketTooSmall, which is also what *)
(* decode returns for such a buffer and what try_to_parse_packet answers   *)
(* with Ok(false), not with an error.  Otherwise it succeeds and has read  *)
(* up to the first byte without continuation bit.                          *)
(***************************************************************************)
\* The number of bytes at the start of buf that carry the continuation bit.
RECURSIVE Continued(_)
Continued(buf) ==
    IF buf = <<>> \/ buf[1] < 128 THEN 0 ELSE 1 + Continued(Drop(buf, 1))

C18_BoundedVarInt ==
    (called /\ call.op = "read_varint") =>
        /\ ret.idx <= 5
        /\ ret.idx <= Len(call.buf)
        /\ Continued(call.buf) >= 5 =>
               ret.err = "VarIntTooBig"
        /\ (Continued(call.buf) < 5 /\ Continued(call.buf) = Len(call.buf)) =>
               /\ ret.err = "PacketTooSmall"
               /\ decode(call.buf, "Handshake").err = "PacketTooSmall"
               /\ decode_failed(create, ret.err).ret = "false"
        /\ (Continued(call.buf) < 5 /\ Continued(call.buf) < Len(call.buf)) =>
               /\ ret.err = "Ok"
               /\ ret.idx = Continued(call.buf) + 1

C18_Witness ==
    /\ called
    /\ call.op = "read_varint"
    /\ call.buf = <<128, 255, 128, 255, 128, 0>>
    /\ ret.err = "VarIntTooBig"
    /\ ret.idx = 5

(***************************************************************************)
(* C19  String bound enforcement.  read_string(max_length) fails with      *)
(* StringTooLarge whenever the length prefix is negative or greater than   *)
(* max_length, whatever the number of bytes that follow the prefix, fewer  *)
(* than declared included.  It fails with StringTooSmall exactly when the  *)
(* prefix is within 0..max_length and fewer bytes than declared follow.    *)
(***************************************************************************)
C19_StringBound ==
    (called /\ call.op = "read_string") =>
        /\ (call.size < 0 \/ call.size > call.max_length) =>
               ret.err = "StringTooLarge"
        /\ ret.err = "StringTooSmall" <=>
               /\ call.size >= 0
               /\ call.size <= call.max_length
               /\ Len(call.content) < call.size

C19_Witness ==
    /\ called
    /\ call.op = "read_string"
    /\ call.size = 17
    /\ call.max_length = 16
    /\ call.content = <<>>
    /\ ret.err = "StringTooLarge"

(***************************************************************************)
(* C20  Short fixed-width reads.  read_short, read_long and read_uuid on   *)
(* a reader with fewer bytes than the width of the field (2, 8 and 16)     *)
(* return an error value, read no byte outside the buffer (no panic) and   *)
(* leave the reader index where it was.  With 8 bytes or more read_long    *)
(* returns the big-endian value of the next 8 bytes (as four 16-bit        *)
(* groups, most significant first) and advances the index by 8.            *)
(* Violated: read_long asks for 2 bytes and reads 8.                       *)
(***************************************************************************)
FieldWidth(op) ==
    IF op = "read_short" THEN 2 ELSE IF op = "read_long" THEN 8 ELSE 16

C20_ShortFixedReads ==
    (called /\ call.op \in {"read_short", "read_long", "read_uuid"}) =>
        /\ Len(call.buf) < FieldWidth(call.op) =>
               /\ ret.err \notin {"Ok", "Panic"}
               /\ ret.idx = 0
        /\ (call.op = "read_long" /\ Len(call.buf) >= 8) =>
               /\ ret.err = "Ok"
               /\ ret.value = << call.buf[1] * 256 + call.buf[2],
                                 call.buf[3] * 256 + call.buf[4],
                                 call.buf[5] * 256 + call.buf[6],
                                 call.buf[7] * 256 + call.buf[8] >>
               /\ ret.idx = 8

(***************************************************************************)
(* C21  Decode is total.  For every buffer and every phase Packet::decode  *)
(* returns a packet, PacketTooSmall or another error value and does not    *)
(* panic.  When it returns a packet, the id varint is no longer than the   *)
(* declared length, the payload has declared length minus id size bytes,   *)
(* and raw_size is the size of the length varint plus the declared length  *)
(* and at most the length of the buffer.                                   *)
(* Violated: a declared length smaller than the size of the id varint      *)
(* (zero and negative lengths included) underflows buffer_length.          *)
(***************************************************************************)
DeclaredLength(buf) == read_varint(buf, 0)

IdOf(buf) == read_varint_with_size(buf, DeclaredLength(buf).idx)

C21_DecodeTotal ==
    (called /\ call.op = "decode_raw") =>
        /\ ret.err # "Panic"
        /\ ret.err = "Ok" =>
               /\ IdOf(call.buf).value[2] <= DeclaredLength(call.buf).value
               /\ Len(ret.value.data) =
                      DeclaredLength(call.buf).value - IdOf(call.buf).value[2]
               /\ ret.value.raw_size =
                      DeclaredLength(call.buf).idx + DeclaredLength(call.buf).value
               /\ ret.value.raw_size <= Len(call.buf)

(***************************************************************************)
(* C22  The decode pass terminates.  An iteration of the loop of data_read *)
(* goes round only after a successful decode, and every successful decode  *)
(* removes at least one byte from the front of the accumulation buffer;    *)
(* every pass that has begun comes to an end.  The pass ends on the phase  *)
(* Disconnected, on an incomplete frame (PacketTooSmall), on an error      *)
(* value of Packet::decode, or, the case the statement leaves out, on a    *)
(* panic of the task in Packet::decode, in a handler or in send_packet.    *)
(***************************************************************************)
\* How the iteration that starts in this state takes the loop to its end,
\* "Ok" when the frame at the front decodes.
PassEnding ==
    IF state = "Disconnected" THEN "Disconnected"
    ELSE IF decode(current_packet, state).err = "PacketTooSmall" THEN "Incomplete"
    ELSE IF decode(current_packet, state).err = "Panic" THEN "Panic"
    ELSE IF decode(current_packet, state).err = "Ok" THEN "Ok"
    ELSE "Error"

\* A successful decode takes at least one byte from the front of the buffer.
DecodeProgress ==
    (pc = "parse" /\ PassEnding = "Ok") =>
        \E k \in 1..Len(current_packet) :
            current_packet' = Drop(current_packet, k)

\* The loop goes round only after a successful decode.
GoesRoundOnDecode ==
    (pc = "parse" /\ pc' = "parse") => PassEnding = "Ok"

PassEnds == (pc = "parse") ~> (pc # "parse")

C22_DecodePassTerminates ==
    /\ [][/\ DecodeProgress
          /\ GoesRoundOnDecode
          /\ (pc = "parse" /\ pc' # "parse") =>
                 \/ PassEnding \in {"Disconnected", "Incomplete", "Error"}
                 \/ pc' = "panicked" /\ panic' # "none"
         ]_<< vars, codecVars, serverVars >>
    /\ PassEnds

\* The statement as given: the pass ends on Disconnected, on an incomplete
\* frame or on an error value, and in no other way.
C22_EndsWithoutPanic ==
    /\ [][/\ DecodeProgress
          /\ GoesRoundOnDecode
          /\ (pc = "parse" /\ pc' # "parse") =>
                 PassEnding \in {"Disconnected", "Incomplete", "Error"}
         ]_<< vars, codecVars, serverVars >>
    /\ PassEnds

\* A pass of two iterations: the handshake-start was decoded and handled,
\* and the status request behind it ended the pass with a panic of write.
C22_Witness ==
    /\ pc = "panicked"
    /\ panic = "expect_write"
    /\ Len(consumed) = 2
    /\ ~split
    /\ current_packet = <<>>

=============================================================================
